---- MODULE Spec2Model ----
(***************************************************************************)
(* Model of the Monero block-oriented Base58 codec (src/monero/base58.ts)  *)
(* and of the standard-address decoder (src/monero/decodeAddress.ts).      *)
(*                                                                         *)
(* Text is a sequence of one-character strings, a byte array a sequence of *)
(* numbers 0..255.  The code computes with unbounded integers (bigint);    *)
(* block values need up to 64 bits (and a decoded group up to 65 bits), so *)
(* a bigint is a sequence of base-256 digits, most significant first,      *)
(* without leading zero digits (0n is the empty sequence).                 *)
(*                                                                         *)
(* A call that throws is a record whose err names the error; a call that   *)
(* returns has err = "none" and its value in val.                          *)
(***************************************************************************)
EXTENDS Integers, Sequences, FiniteSets, TLC

\* a call of the codec: its argument, the function called, its outcome
VARIABLES input, call, result

\* the server: the rows of table paylinks, the last request and its response,
\* the statements the last request sent to the database, and the subaddress
\* indexes the donation requests were answered with so far
VARIABLES db, req, resp, queried, answers

codecVars == <<input, call, result>>

serverVars == <<db, req, resp, queried, answers>>

vars == <<input, call, result, db, req, resp, queried, answers>>

----------------------------------------------------------------------------
(* Bounds of the explored inputs *)

MaxDataLen == 8
MaxDataBlocks == 2
MaxTrailLen == 2
MaxPreLen == 2
MaxPadLen == 9
MaxAddrGroups == 9
MaxRequests == 2

----------------------------------------------------------------------------
(* Results of calls *)

Ok(v) == [err |-> "none", val |-> v, info |-> <<>>]

Throw(kind, what) == [err |-> kind, val |-> <<>>, info |-> <<what>>]

----------------------------------------------------------------------------
(* src/monero/base58.ts *)

ALPHABET ==
  << "1", "2", "3", "4", "5", "6", "7", "8", "9",
     "A", "B", "C", "D", "E", "F", "G", "H", "J", "K", "L", "M", "N", "P",
     "Q", "R", "S", "T", "U", "V", "W", "X", "Y", "Z",
     "a", "b", "c", "d", "e", "f", "g", "h", "i", "j", "k", "m", "n", "o",
     "p", "q", "r", "s", "t", "u", "v", "w", "x", "y", "z" >>

BASE == 58

FULL_BLOCK_SIZE == 8

FULL_ENCODED_BLOCK_SIZE == 11

\* ALPHABET.indexOf(c): 0-based index of c, -1 when absent
indexOf(c) ==
  IF \E i \in 1..Len(ALPHABET) : ALPHABET[i] = c
  THEN (CHOOSE i \in 1..Len(ALPHABET) : ALPHABET[i] = c) - 1
  ELSE -1

\* decoded bytes -> encoded chars
getEncodedBlockSize(decodedSize) ==
  CASE decodedSize = 1 -> Ok(2)
    [] decodedSize = 2 -> Ok(3)
    [] decodedSize = 3 -> Ok(5)
    [] decodedSize = 4 -> Ok(6)
    [] decodedSize = 5 -> Ok(7)
    [] decodedSize = 6 -> Ok(9)
    [] decodedSize = 7 -> Ok(10)
    [] decodedSize = 8 -> Ok(11)
    [] OTHER -> Throw("InvalidDecodedBlockSize", decodedSize)

\* variant: a size outside the table gets a proportional default
getDecodedBlockSize_Proportional(encodedSize) ==
  CASE encodedSize = 2 -> Ok(1)
    [] encodedSize = 3 -> Ok(2)
    [] encodedSize = 5 -> Ok(3)
    [] encodedSize = 6 -> Ok(4)
    [] encodedSize = 7 -> Ok(5)
    [] encodedSize = 9 -> Ok(6)
    [] encodedSize = 10 -> Ok(7)
    [] encodedSize = 11 -> Ok(8)
    [] OTHER -> Ok((encodedSize * FULL_BLOCK_SIZE) \div FULL_ENCODED_BLOCK_SIZE)

\* encoded chars -> decoded bytes
getDecodedBlockSize(encodedSize) ==
  CASE encodedSize = 2 -> Ok(1)
    [] encodedSize = 3 -> Ok(2)
    [] encodedSize = 5 -> Ok(3)
    [] encodedSize = 6 -> Ok(4)
    [] encodedSize = 7 -> Ok(5)
    [] encodedSize = 9 -> Ok(6)
    [] encodedSize = 10 -> Ok(7)
    [] encodedSize = 11 -> Ok(8)
    [] OTHER -> Throw("InvalidEncodedBlockSize", encodedSize)

\* a bigint has no leading zero digits
RECURSIVE BigNormalize(_)
BigNormalize(n) ==
  IF n # <<>> /\ Head(n) = 0 THEN BigNormalize(Tail(n)) ELSE n

\* n = (n << 8n) + BigInt(b), for each byte b (big-endian)
bytesToBigInt(bytes) == BigNormalize(bytes)

\* the pair (num / BASE, num % BASE) by long division, digit i onwards
RECURSIVE BigDivModFrom(_, _, _, _)
BigDivModFrom(n, i, carry, quot) ==
  IF i > Len(n)
  THEN [quot |-> BigNormalize(quot), rem |-> carry]
  ELSE LET cur == carry * 256 + n[i]
       IN BigDivModFrom(n, i + 1, cur % BASE, Append(quot, cur \div BASE))

BigDivMod(n) == BigDivModFrom(n, 1, 0, <<>>)

\* num * BASE + digit, from the least significant digit i down to the first
RECURSIVE BigMulAddFrom(_, _, _, _)
BigMulAddFrom(n, i, carry, acc) ==
  IF i = 0
  THEN BigNormalize(<<carry>> \o acc)
  ELSE LET cur == n[i] * BASE + carry
       IN BigMulAddFrom(n, i - 1, cur \div 256, <<cur % 256>> \o acc)

BigMulAdd(n, digit) == BigMulAddFrom(n, Len(n), digit, <<>>)

\* variant: the loop stops when the number is exhausted
RECURSIVE encodeBlockLoop_UntilZero(_, _, _, _)
encodeBlockLoop_UntilZero(num, i, encodedSize, chars) ==
  IF i >= encodedSize \/ (num = <<>> /\ i > 0)
  THEN chars
  ELSE LET dm == BigDivMod(num)
       IN encodeBlockLoop_UntilZero(dm.quot, i + 1, encodedSize,
                                    Append(chars, ALPHABET[dm.rem + 1]))

\* the loop of encodeBlock: i-th division, chars least significant first
RECURSIVE encodeBlockLoop(_, _, _, _)
encodeBlockLoop(num, i, encodedSize, chars) ==
  IF i >= encodedSize
  THEN chars
  ELSE LET dm == BigDivMod(num)
       IN encodeBlockLoop(dm.quot, i + 1, encodedSize,
                          Append(chars, ALPHABET[dm.rem + 1]))

Reverse(s) == [i \in 1..Len(s) |-> s[Len(s) + 1 - i]]

\* variant: the characters stay least significant first
encodeBlock_NoReverse(data, encodedSize) ==
  encodeBlockLoop(bytesToBigInt(data), 0, encodedSize, <<>>)

encodeBlock(data, encodedSize) ==
  Reverse(encodeBlockLoop(bytesToBigInt(data), 0, encodedSize, <<>>))

bigIntToBytesMinimal(n) == IF n = <<>> THEN <<0>> ELSE n

\* variant: a character outside the alphabet is skipped
RECURSIVE decodeBlockLoop_SkipUnknown(_, _, _)
decodeBlockLoop_SkipUnknown(data, i, num) ==
  IF i > Len(data)
  THEN Ok(num)
  ELSE LET digit == indexOf(data[i])
       IN IF digit < 0
          THEN decodeBlockLoop_SkipUnknown(data, i + 1, num)
          ELSE decodeBlockLoop_SkipUnknown(data, i + 1, BigMulAdd(num, digit))

\* the loop of decodeBlock over the characters of data, from the i-th
RECURSIVE decodeBlockLoop(_, _, _)
decodeBlockLoop(data, i, num) ==
  IF i > Len(data)
  THEN Ok(num)
  ELSE LET digit == indexOf(data[i])
       IN IF digit < 0
          THEN Throw("InvalidCharacter", data[i])
          ELSE decodeBlockLoop(data, i + 1, BigMulAdd(num, digit))

Min(a, b) == IF a < b THEN a ELSE b

\* variant: of a value too large for the block, the high-order bytes are kept
decodeBlock_KeepHigh(data, decodedSize) ==
  LET r == decodeBlockLoop(data, 1, <<>>)
  IN IF r.err # "none"
     THEN r
     ELSE LET full == bigIntToBytesMinimal(r.val)
              start == 0
              length == Min(Len(full), decodedSize)
          IN Ok([i \in 1..decodedSize |->
                   IF i <= decodedSize - length
                   THEN 0
                   ELSE full[start + i - (decodedSize - length)]])

decodeBlock(data, decodedSize) ==
  LET r == decodeBlockLoop(data, 1, <<>>)
  IN IF r.err # "none"
     THEN r
     ELSE LET full == bigIntToBytesMinimal(r.val)
              start == IF Len(full) > decodedSize
                       THEN Len(full) - decodedSize ELSE 0
              length == Min(Len(full), decodedSize)
          IN Ok([i \in 1..decodedSize |->
                   IF i <= decodedSize - length
                   THEN 0
                   ELSE full[start + i - (decodedSize - length)]])

\* data.subarray(from, to): bytes from (0-based) up to but excluding to
subarray(data, from, to) == SubSeq(data, from + 1, Min(to, Len(data)))

\* variant: a block starts at the start of the data
RECURSIVE encodeFullBlocks_FromStart(_, _, _, _)
encodeFullBlocks_FromStart(data, i, fullBlockCount, parts) ==
  IF i >= fullBlockCount
  THEN parts
  ELSE LET start == i * FULL_BLOCK_SIZE
           block == subarray(data, 0, start + FULL_BLOCK_SIZE)
       IN encodeFullBlocks_FromStart(data, i + 1, fullBlockCount,
                                     parts \o encodeBlock(block, FULL_ENCODED_BLOCK_SIZE))

\* the loop of cnBase58Encode over the full blocks, from the i-th
RECURSIVE encodeFullBlocks(_, _, _, _)
encodeFullBlocks(data, i, fullBlockCount, parts) ==
  IF i >= fullBlockCount
  THEN parts
  ELSE LET start == i * FULL_BLOCK_SIZE
           block == subarray(data, start, start + FULL_BLOCK_SIZE)
       IN encodeFullBlocks(data, i + 1, fullBlockCount,
                           parts \o encodeBlock(block, FULL_ENCODED_BLOCK_SIZE))

\* variant: the trailing block is encoded even when it is empty
cnBase58Encode_AlwaysTrailing(data) ==
  LET fullBlockCount == Len(data) \div FULL_BLOCK_SIZE
      lastBlockSize == Len(data) % FULL_BLOCK_SIZE
      parts == encodeFullBlocks(data, 0, fullBlockCount, <<>>)
  IN IF lastBlockSize >= 0
     THEN LET block == subarray(data, fullBlockCount * FULL_BLOCK_SIZE, Len(data))
              encodedSize == getEncodedBlockSize(lastBlockSize)
          IN IF encodedSize.err # "none"
             THEN encodedSize
             ELSE Ok(parts \o encodeBlock(block, encodedSize.val))
     ELSE Ok(parts)

cnBase58Encode(data) ==
  LET fullBlockCount == Len(data) \div FULL_BLOCK_SIZE
      lastBlockSize == Len(data) % FULL_BLOCK_SIZE
      parts == encodeFullBlocks(data, 0, fullBlockCount, <<>>)
  IN IF lastBlockSize > 0
     THEN LET block == subarray(data, fullBlockCount * FULL_BLOCK_SIZE, Len(data))
              encodedSize == getEncodedBlockSize(lastBlockSize)
          IN IF encodedSize.err # "none"
             THEN encodedSize
             ELSE Ok(parts \o encodeBlock(block, encodedSize.val))
     ELSE Ok(parts)

\* encoded.slice(from, to)
slice(encoded, from, to) == SubSeq(encoded, from + 1, Min(to, Len(encoded)))

\* the loop of cnBase58Decode over the full groups, from the i-th
RECURSIVE decodeFullBlocks(_, _, _, _)
decodeFullBlocks(encoded, i, fullBlockCount, bytes) ==
  IF i >= fullBlockCount
  THEN Ok(bytes)
  ELSE LET start == i * FULL_ENCODED_BLOCK_SIZE
           blockStr == slice(encoded, start, start + FULL_ENCODED_BLOCK_SIZE)
           decodedBlock == decodeBlock(blockStr, FULL_BLOCK_SIZE)
       IN IF decodedBlock.err # "none"
          THEN decodedBlock
          ELSE decodeFullBlocks(encoded, i + 1, fullBlockCount,
                                bytes \o decodedBlock.val)

cnBase58Decode(encoded) ==
  LET fullBlockCount == Len(encoded) \div FULL_ENCODED_BLOCK_SIZE
      lastBlockSize == Len(encoded) % FULL_ENCODED_BLOCK_SIZE
      bytes == decodeFullBlocks(encoded, 0, fullBlockCount, <<>>)
  IN IF bytes.err # "none"
     THEN bytes
     ELSE IF lastBlockSize > 0
          THEN LET blockStr == slice(encoded, fullBlockCount * FULL_ENCODED_BLOCK_SIZE,
                                     Len(encoded))
                   decodedSize == getDecodedBlockSize(lastBlockSize)
               IN IF decodedSize.err # "none"
                  THEN decodedSize
                  ELSE LET decodedBlock == decodeBlock(blockStr, decodedSize.val)
                       IN IF decodedBlock.err # "none"
                          THEN decodedBlock
                          ELSE Ok(bytes.val \o decodedBlock.val)
          ELSE bytes

----------------------------------------------------------------------------
(* src/monero/decodeAddress.ts *)

HexDigits ==
  << "0", "1", "2", "3", "4", "5", "6", "7",
     "8", "9", "a", "b", "c", "d", "e", "f" >>

\* variant: a byte below 16 gets one hex digit
RECURSIVE bytesToHex_NoPad(_)
bytesToHex_NoPad(b) ==
  IF b = <<>>
  THEN <<>>
  ELSE (IF Head(b) < 16
        THEN <<HexDigits[Head(b) + 1]>>
        ELSE <<HexDigits[(Head(b) \div 16) + 1], HexDigits[(Head(b) % 16) + 1]>>)
       \o bytesToHex_NoPad(Tail(b))

\* Buffer.from(b).toString("hex"): two lowercase hex digits per byte
bytesToHex(b) ==
  [i \in 1..(2 * Len(b)) |->
     IF i % 2 = 1
     THEN HexDigits[(b[(i + 1) \div 2] \div 16) + 1]
     ELSE HexDigits[(b[i \div 2] % 16) + 1]]

AddressLength == 69

\* variant: a payload longer than 69 bytes is cut to its first 69
decodeStandardAddress_AtLeast(address) ==
  LET decoded == cnBase58Decode(address)
  IN IF decoded.err # "none"
     THEN decoded
     ELSE IF Len(decoded.val) < AddressLength
          THEN Throw("InvalidLength", Len(decoded.val))
          ELSE LET prefix == decoded.val[1]
                   publicSpend == slice(decoded.val, 1, 33)
                   publicView == slice(decoded.val, 33, 65)
                   checksum == slice(decoded.val, 65, 69)
               IN Ok([prefix |-> prefix,
                      publicSpendKeyHex |-> bytesToHex(publicSpend),
                      publicViewKeyHex |-> bytesToHex(publicView),
                      checksumHex |-> bytesToHex(checksum)])

\* variant: the view key is sliced one byte early
decodeStandardAddress_ShiftedView(address) ==
  LET decoded == cnBase58Decode(address)
  IN IF decoded.err # "none"
     THEN decoded
     ELSE IF Len(decoded.val) # AddressLength
          THEN Throw("InvalidLength", Len(decoded.val))
          ELSE LET prefix == decoded.val[1]
                   publicSpend == slice(decoded.val, 1, 33)
                   publicView == slice(decoded.val, 32, 64)
                   checksum == slice(decoded.val, 65, 69)
               IN Ok([prefix |-> prefix,
                      publicSpendKeyHex |-> bytesToHex(publicSpend),
                      publicViewKeyHex |-> bytesToHex(publicView),
                      checksumHex |-> bytesToHex(checksum)])

\* variant: only the mainnet prefix 18 is accepted
decodeStandardAddress_MainnetOnly(address) ==
  LET decoded == cnBase58Decode(address)
  IN IF decoded.err # "none"
     THEN decoded
     ELSE IF Len(decoded.val) # AddressLength
          THEN Throw("InvalidLength", Len(decoded.val))
          ELSE IF decoded.val[1] # 18
               THEN Throw("InvalidPrefix", decoded.val[1])
               ELSE LET prefix == decoded.val[1]
                        publicSpend == slice(decoded.val, 1, 33)
                        publicView == slice(decoded.val, 33, 65)
                        checksum == slice(decoded.val, 65, 69)
                    IN Ok([prefix |-> prefix,
                           publicSpendKeyHex |-> bytesToHex(publicSpend),
                           publicViewKeyHex |-> bytesToHex(publicView),
                           checksumHex |-> bytesToHex(checksum)])

decodeStandardAddress(address) ==
  LET decoded == cnBase58Decode(address)
  IN IF decoded.err # "none"
     THEN decoded
     ELSE IF Len(decoded.val) # AddressLength
          THEN Throw("InvalidLength", Len(decoded.val))
          ELSE LET prefix == decoded.val[1]
                   publicSpend == slice(decoded.val, 1, 33)
                   publicView == slice(decoded.val, 33, 65)
                   checksum == slice(decoded.val, 65, 69)
               IN Ok([prefix |-> prefix,
                      publicSpendKeyHex |-> bytesToHex(publicSpend),
                      publicViewKeyHex |-> bytesToHex(publicView),
                      checksumHex |-> bytesToHex(checksum)])

----------------------------------------------------------------------------
(* The inputs a caller hands to the codec *)

Rep(c, n) == [i \in 1..n |-> c]

SeqsUpTo(S, n) == UNION {[1..k -> S] : k \in 0..n}

\* bytes: zero, one, and the largest byte
ByteVals == {0, 1, 255}

\* full blocks: one with leading zero bytes, the largest, the smallest
BlockVals ==
  { <<0, 0, 1, 255, 0, 255, 255, 1>>,
    Rep(255, FULL_BLOCK_SIZE),
    Rep(0, FULL_BLOCK_SIZE) }

RECURSIVE Flatten(_)
Flatten(ss) == IF ss = <<>> THEN <<>> ELSE Head(ss) \o Flatten(Tail(ss))

\* every short sequence, and one or more full blocks before a short trailing block
DataInputs ==
  SeqsUpTo(ByteVals, MaxDataLen)
    \cup {Flatten(bs) \o t :
            bs \in SeqsUpTo(BlockVals, MaxDataBlocks) \ {<<>>},
            t \in SeqsUpTo(ByteVals, MaxTrailLen)}

\* digits 0, 4 and 57, and a character the alphabet leaves out
CharVals == {"1", "5", "z", "0"}

\* a full group of value 0
GroupZero == Rep("1", FULL_ENCODED_BLOCK_SIZE)

\* the full group of the block ff ff ff ff ff ff ff ff
GroupFF == << "j", "p", "X", "C", "Z", "e", "d", "G", "f", "V", "Q" >>

\* the full group of the block 12 01 ff 00 07 00 00 2a
GroupMix == << "4", "1", "h", "V", "i", "P", "h", "q", "C", "a", "d" >>

\* a full group whose value 58^11 - 1 does not fit 8 bytes
GroupOver == Rep("z", FULL_ENCODED_BLOCK_SIZE)

\* a full group with a character outside the alphabet
GroupBad == Rep("1", 5) \o <<"O">> \o Rep("1", 5)

GroupVals == {GroupZero, GroupFF, GroupOver, GroupBad}

\* no full group, or one
HeadTexts == {<<>>} \cup GroupVals

TailTexts ==
  {pre \o Rep(pad, n) :
     pre \in SeqsUpTo(CharVals, MaxPreLen), pad \in CharVals, n \in 0..MaxPadLen}

CodecTexts == {h \o t : h \in HeadTexts, t \in TailTexts}

AddrGroupVals == {GroupZero, GroupFF, GroupMix, GroupOver}

AddrTailVals ==
  { Rep("1", 7),
    << "1", "7", "b", "W", "p", "W", "s" >>,
    Rep("z", 7),
    Rep("1", 3) \o <<"I">> \o Rep("1", 2) \o <<"l">>,
    Rep("1", 6),
    Rep("z", 9),
    Rep("1", 8) }

\* first group, equal middle groups, last full group, final group
AddressTexts ==
  {g1 \o Flatten(Rep(gm, n - 2)) \o g8 \o t :
     g1 \in AddrGroupVals, gm \in {GroupZero, GroupMix}, g8 \in AddrGroupVals,
     n \in (MaxAddrGroups - 2)..MaxAddrGroups, t \in AddrTailVals}

TextInputs == CodecTexts \cup AddressTexts

----------------------------------------------------------------------------
(* The calls *)

\* the server before its first request
ServerIdle ==
  /\ db = {}
  /\ req = [op |-> "none"]
  /\ resp = [status |-> 0]
  /\ queried = <<>>
  /\ answers = <<>>

Init ==
  /\ \/ \E b \in DataInputs : input = [kind |-> "bytes", v |-> b]
     \/ \E s \in TextInputs : input = [kind |-> "text", v |-> s]
  /\ call = "none"
  /\ result = Ok(<<>>)
  /\ ServerIdle

Encode ==
  /\ call = "none"
  /\ input.kind = "bytes"
  /\ call' = "cnBase58Encode"
  /\ result' = cnBase58Encode(input.v)
  /\ UNCHANGED input
  /\ UNCHANGED serverVars

Decode ==
  /\ call = "none"
  /\ input.kind = "text"
  /\ call' = "cnBase58Decode"
  /\ result' = cnBase58Decode(input.v)
  /\ UNCHANGED input
  /\ UNCHANGED serverVars

DecodeAddress ==
  /\ call = "none"
  /\ input.kind = "text"
  /\ call' = "decodeStandardAddress"
  /\ result' = decodeStandardAddress(input.v)
  /\ UNCHANGED input
  /\ UNCHANGED serverVars

Next == Encode \/ Decode \/ DecodeAddress

Spec == Init /\ [][Next]_vars

----------------------------------------------------------------------------
(* Properties of the codec *)

AlphabetChars == {ALPHABET[i] : i \in 1..Len(ALPHABET)}

\* the part of a text that lies in full groups
FullGroupsLen(s) == (Len(s) \div FULL_ENCODED_BLOCK_SIZE) * FULL_ENCODED_BLOCK_SIZE

FinalGroupLen(s) == Len(s) % FULL_ENCODED_BLOCK_SIZE

HasUnknownChar(s) == \E i \in 1..Len(s) : s[i] \notin AlphabetChars

HasUnknownCharInFullGroups(s) ==
  \E i \in 1..FullGroupsLen(s) : s[i] \notin AlphabetChars

\* the widths of the groups of blocks of 1..8 bytes
WidthTable == <<2, 3, 5, 6, 7, 9, 10, 11>>

\* C1: decoding the encoding of any byte sequence returns the byte sequence
C1_DecodeOfEncode ==
  call = "cnBase58Encode" =>
    /\ result.err = "none"
    /\ cnBase58Decode(result.val) = Ok(input.v)

\* C1: two blocks, the first with leading zero bytes, were encoded
C1_Witness ==
  /\ call = "cnBase58Encode"
  /\ input.v = <<0, 0, 1, 255, 0, 255, 255, 1, 255>>
  /\ Len(result.val) = 13

\* C2: encoding the decoding of any accepted text returns the text
C2_EncodeOfDecode ==
  (call = "cnBase58Decode" /\ result.err = "none") =>
    cnBase58Encode(result.val) = Ok(input.v)

\* C3: a single block of L bytes is encoded to the tabled width for L,
\* whatever its bytes are
C3_BlockWidth ==
  (call = "cnBase58Encode" /\ Len(input.v) \in 1..FULL_BLOCK_SIZE) =>
    /\ result.err = "none"
    /\ Len(result.val) = WidthTable[Len(input.v)]

\* C3: a full block with seven leading zero bytes was encoded to 11 characters
C3_Witness ==
  /\ call = "cnBase58Encode"
  /\ input.v = <<0, 0, 0, 0, 0, 0, 0, 255>>
  /\ Len(result.val) = 11

\* C4 as stated: decoding a text with a character outside the alphabet fails
\* with the invalid-character error
C4_UnknownCharIsInvalidCharacter ==
  (call = "cnBase58Decode" /\ HasUnknownChar(input.v)) =>
    result.err = "InvalidCharacter"

\* C4 amended: decoding a text with a character outside the alphabet fails
\* and returns no bytes; the error is the invalid-block-size error when the
\* full groups are clean and the final group has 1, 4 or 8 characters, and
\* the invalid-character error otherwise
C4_UnknownCharFails ==
  (call = "cnBase58Decode" /\ HasUnknownChar(input.v)) =>
    /\ result.val = <<>>
    /\ IF ~HasUnknownCharInFullGroups(input.v) /\ FinalGroupLen(input.v) \in {1, 4, 8}
       THEN result.err = "InvalidEncodedBlockSize"
       ELSE result.err = "InvalidCharacter" /\ result.info[1] \notin AlphabetChars

\* C4: a text whose only unknown character is the last one of a final group
\* of valid length was rejected for that character
C4_Witness ==
  /\ call = "cnBase58Decode"
  /\ input.v = GroupZero \o <<"5", "z", "0">>
  /\ result.err = "InvalidCharacter"
  /\ result.info = <<"0">>

\* C5 as stated: decoding a text whose final group has 1, 4 or 8 characters
\* fails with the invalid-block-size error whatever its characters are
C5_BadFinalGroupIsInvalidBlockSize ==
  (call = "cnBase58Decode" /\ FinalGroupLen(input.v) \in {1, 4, 8}) =>
    result.err = "InvalidEncodedBlockSize"

\* C5 amended: decoding a text whose final group has 1, 4 or 8 characters
\* fails and returns no bytes; the error is the invalid-block-size error,
\* whatever the characters of the final group are, when every full group has
\* only alphabet characters, and the invalid-character error otherwise
C5_BadFinalGroupFails ==
  (call = "cnBase58Decode" /\ FinalGroupLen(input.v) \in {1, 4, 8}) =>
    /\ result.val = <<>>
    /\ IF HasUnknownCharInFullGroups(input.v)
       THEN result.err = "InvalidCharacter"
       ELSE /\ result.err = "InvalidEncodedBlockSize"
            /\ result.info = <<FinalGroupLen(input.v)>>

\* C5: a text of one full group and a final group of 8 alphabet characters
\* was rejected for the size of its final group
C5_Witness ==
  /\ call = "cnBase58Decode"
  /\ Len(input.v) = 19
  /\ ~HasUnknownChar(input.v)
  /\ result.err = "InvalidEncodedBlockSize"
  /\ result.info = <<8>>

\* C6: encoding never fails, whatever the length of the byte sequence
C6_EncodeTotal ==
  call = "cnBase58Encode" =>
    /\ result.err = "none"
    /\ \A i \in 1..Len(result.val) : result.val[i] \in AlphabetChars

\* C6: a sequence of exactly one full block, which has no trailing block,
\* was encoded
C6_Witness ==
  /\ call = "cnBase58Encode"
  /\ Len(input.v) = FULL_BLOCK_SIZE
  /\ result.err = "none"

----------------------------------------------------------------------------
(* Properties of the address decoder *)

HexValue(c) == (CHOOSE i \in 1..Len(HexDigits) : HexDigits[i] = c) - 1

\* the bytes a text of hex digits stands for
HexToBytes(h) ==
  [i \in 1..(Len(h) \div 2) |-> HexValue(h[2 * i - 1]) * 16 + HexValue(h[2 * i])]

\* the block-decoded payload of the input text
Payload == cnBase58Decode(input.v)

\* C7: decodeStandardAddress returns a record only for a payload of exactly
\* 69 bytes; for a payload of any other length it fails with the
\* invalid-length error that carries the length
C7_OnlyExactLength ==
  (call = "decodeStandardAddress" /\ Payload.err = "none") =>
    /\ result.err = "none" <=> Len(Payload.val) = 69
    /\ Len(Payload.val) # 69 =>
         /\ result.err = "InvalidLength"
         /\ result.info = <<Len(Payload.val)>>
         /\ result.val = <<>>

\* C7: a text with a payload of 70 bytes was rejected for its length
C7_Witness ==
  /\ call = "decodeStandardAddress"
  /\ Payload.err = "none"
  /\ Len(Payload.val) = 70
  /\ result.err = "InvalidLength"
  /\ result.info = <<70>>

\* C8: the fields of the record are byte 0, bytes 1..32, bytes 33..64 and
\* bytes 65..68 of the payload, and together they are the payload
C8_FieldSlices ==
  (call = "decodeStandardAddress" /\ Payload.err = "none" /\ Len(Payload.val) = 69) =>
    /\ result.err = "none"
    /\ result.val.prefix = Payload.val[1]
    /\ HexToBytes(result.val.publicSpendKeyHex) = SubSeq(Payload.val, 2, 33)
    /\ HexToBytes(result.val.publicViewKeyHex) = SubSeq(Payload.val, 34, 65)
    /\ HexToBytes(result.val.checksumHex) = SubSeq(Payload.val, 66, 69)
    /\ <<result.val.prefix>> \o HexToBytes(result.val.publicSpendKeyHex)
         \o HexToBytes(result.val.publicViewKeyHex)
         \o HexToBytes(result.val.checksumHex) = Payload.val

\* C8: an address whose spend key, view key and checksum differ was decoded
C8_Witness ==
  /\ call = "decodeStandardAddress"
  /\ result.err = "none"
  /\ result.val.prefix = 18
  /\ result.val.publicSpendKeyHex # result.val.publicViewKeyHex
  /\ HexToBytes(result.val.checksumHex) = <<2, 3, 4, 200>>

\* prefixes and checksums to put into a payload
PrefixVals == {0, 18, 53, 255}

ChecksumVals == {<<0, 0, 0, 0>>, <<1, 2, 3, 4>>, <<255, 255, 255, 255>>}

\* C9: a text with a payload of 69 bytes is accepted and its prefix byte
\* returned as it is, and so is the text of the same payload with any other
\* prefix byte and any other checksum
C9_AnyPrefixAnyChecksum ==
  (call = "decodeStandardAddress" /\ Payload.err = "none" /\ Len(Payload.val) = 69) =>
    /\ result.err = "none"
    /\ result.val.prefix = Payload.val[1]
    /\ \A p \in PrefixVals, c \in ChecksumVals :
         LET other == decodeStandardAddress(
                        cnBase58Encode(<<p>> \o SubSeq(Payload.val, 2, 65) \o c).val)
         IN /\ other.err = "none"
            /\ other.val.prefix = p
            /\ HexToBytes(other.val.checksumHex) = c
            /\ other.val.publicSpendKeyHex = result.val.publicSpendKeyHex
            /\ other.val.publicViewKeyHex = result.val.publicViewKeyHex

\* C9: an address whose prefix is not a network's and whose checksum is
\* arbitrary was accepted
C9_Witness ==
  /\ call = "decodeStandardAddress"
  /\ result.err = "none"
  /\ result.val.prefix = 255
  /\ HexToBytes(result.val.checksumHex) = <<0, 0, 0, 0>>

\* C10: a text of 95 alphabet characters has a payload of 69 bytes and is
\* decoded to a record whose spend and view keys have 64 hex digits each
C10_Length95 ==
  (call = "decodeStandardAddress" /\ Len(input.v) = 95 /\ ~HasUnknownChar(input.v)) =>
    /\ Payload.err = "none"
    /\ Len(Payload.val) = 69
    /\ result.err = "none"
    /\ Len(result.val.publicSpendKeyHex) = 64
    /\ Len(result.val.publicViewKeyHex) = 64
    /\ \A i \in 1..64 :
         /\ result.val.publicSpendKeyHex[i] \in {HexDigits[k] : k \in 1..16}
         /\ result.val.publicViewKeyHex[i] \in {HexDigits[k] : k \in 1..16}

\* C10: a text of 95 alphabet characters with a group too large for its
\* block was decoded
C10_Witness ==
  /\ call = "decodeStandardAddress"
  /\ Len(input.v) = 95
  /\ SubSeq(input.v, 1, 11) = GroupOver
  /\ result.err = "none"
  /\ Len(result.val.publicSpendKeyHex) = 64

----------------------------------------------------------------------------
(* Properties of the blocks of the codec *)

\* the value of a character as a base-58 digit
DigitOf(c) == (CHOOSE i \in 1..Len(ALPHABET) : ALPHABET[i] = c) - 1

\* (block * 58 + carry) modulo 256^Len(block), from byte i down to the first
RECURSIVE TimesBaseMod(_, _, _, _)
TimesBaseMod(block, i, carry, acc) ==
  IF i = 0
  THEN acc
  ELSE LET cur == block[i] * 58 + carry
       IN TimesBaseMod(block, i - 1, cur \div 256, <<cur % 256>> \o acc)

\* the base-58 value of a group modulo 256^n, as n bytes, most significant
\* first; acc is the value of the characters before the k-th
RECURSIVE ValueModFrom(_, _, _)
ValueModFrom(group, k, acc) ==
  IF k > Len(group)
  THEN acc
  ELSE ValueModFrom(group, k + 1,
                    TimesBaseMod(acc, Len(acc), DigitOf(group[k]), <<>>))

ValueMod(group, n) == ValueModFrom(group, 1, Rep(0, n))

\* the number of bytes of a group of m characters
BlockSizeOf(m) == CHOOSE L \in 1..8 : WidthTable[L] = m

GroupCount(s) ==
  Len(s) \div FULL_ENCODED_BLOCK_SIZE + (IF FinalGroupLen(s) > 0 THEN 1 ELSE 0)

\* the k-th group of a text, k from 0
GroupAt(s, k) ==
  SubSeq(s, k * FULL_ENCODED_BLOCK_SIZE + 1,
         Min((k + 1) * FULL_ENCODED_BLOCK_SIZE, Len(s)))

\* C14: a group of alphabet characters decoded to a block of n bytes gives
\* the n bytes of its base-58 value modulo 256^n, most significant first
\* (zero bytes in front of a small value, the low-order bytes of a value too
\* large), and a group of too large a value is not rejected
C14_BlockIsValueMod ==
  (call = "cnBase58Decode" /\ ~HasUnknownChar(input.v)
     /\ FinalGroupLen(input.v) \notin {1, 4, 8}) =>
    /\ result.err = "none"
    /\ \A k \in 0..(GroupCount(input.v) - 1) :
         LET group == GroupAt(input.v, k)
             n == BlockSizeOf(Len(group))
         IN SubSeq(result.val, k * FULL_BLOCK_SIZE + 1, k * FULL_BLOCK_SIZE + n)
              = ValueMod(group, n)
    /\ Len(result.val) =
         (Len(input.v) \div FULL_ENCODED_BLOCK_SIZE) * FULL_BLOCK_SIZE
           + (IF FinalGroupLen(input.v) > 0
              THEN BlockSizeOf(FinalGroupLen(input.v)) ELSE 0)

\* C14: the group "zz" of value 3363 was decoded to the one byte 3363 mod 256
C14_Witness ==
  /\ call = "cnBase58Decode"
  /\ input.v = <<"z", "z">>
  /\ result = Ok(<<35>>)

\* C15: the encoding of a byte sequence is the encoding of its first blocks
\* followed by the encoding of the rest, the decoding of a text is the
\* decoding of its first groups followed by the decoding of the rest, and
\* another first block changes only the first group
C15_BlocksIndependent ==
  /\ call = "cnBase58Encode" =>
       /\ \A k \in 0..(Len(input.v) \div FULL_BLOCK_SIZE) :
            LET a == SubSeq(input.v, 1, k * FULL_BLOCK_SIZE)
                b == SubSeq(input.v, k * FULL_BLOCK_SIZE + 1, Len(input.v))
            IN result = Ok(cnBase58Encode(a).val \o cnBase58Encode(b).val)
       /\ Len(input.v) >= FULL_BLOCK_SIZE =>
            \A other \in BlockVals :
              LET rest == SubSeq(input.v, FULL_BLOCK_SIZE + 1, Len(input.v))
                  changed == cnBase58Encode(other \o rest).val
              IN /\ SubSeq(changed, 1, FULL_ENCODED_BLOCK_SIZE)
                      = cnBase58Encode(other).val
                 /\ SubSeq(changed, FULL_ENCODED_BLOCK_SIZE + 1, Len(changed))
                      = SubSeq(result.val, FULL_ENCODED_BLOCK_SIZE + 1, Len(result.val))
  /\ call = "cnBase58Decode" =>
       \A k \in 0..(Len(input.v) \div FULL_ENCODED_BLOCK_SIZE) :
         LET s == SubSeq(input.v, 1, k * FULL_ENCODED_BLOCK_SIZE)
             t == SubSeq(input.v, k * FULL_ENCODED_BLOCK_SIZE + 1, Len(input.v))
             ds == cnBase58Decode(s)
             dt == cnBase58Decode(t)
         IN (ds.err = "none" /\ dt.err = "none") =>
              result = Ok(ds.val \o dt.val)

\* C15: two different full blocks and a trailing block were encoded
C15_Witness ==
  /\ call = "cnBase58Encode"
  /\ input.v = <<0, 0, 1, 255, 0, 255, 255, 1>> \o Rep(255, 8) \o <<1>>
  /\ Len(result.val) = 24

----------------------------------------------------------------------------
(* src/server.ts: constants, schemas and helpers *)

MAX_SUBADDRESS_INDEX == 1000000

DEFAULT_MIN_INDEX == 1

DEFAULT_MAX_INDEX == 100

\* an optional value of a request body: absent, or present with value x
Absent == <<>>

Some(x) == <<x>>

\* s.trim(), for the blank " "
RECURSIVE FirstNonBlank(_, _)
FirstNonBlank(s, i) ==
  IF i <= Len(s) /\ s[i] = " " THEN FirstNonBlank(s, i + 1) ELSE i

RECURSIVE LastNonBlank(_, _)
LastNonBlank(s, i) ==
  IF i >= 1 /\ s[i] = " " THEN LastNonBlank(s, i - 1) ELSE i

Trim(s) == SubSeq(s, FirstNonBlank(s, 1), LastNonBlank(s, Len(s)))

UpperHexDigits == {"A", "B", "C", "D", "E", "F"}

\* /^[0-9a-f]{64}$/i
IsHex64(s) ==
  /\ Len(s) = 64
  /\ \A i \in 1..Len(s) :
       s[i] \in {HexDigits[k] : k \in 1..Len(HexDigits)} \cup UpperHexDigits

\* DeleteByOwnerKeySchema.safeParse(body): the trimmed owner key, or failure
DeleteByOwnerKeySchema(body) ==
  IF body.ownerKey = Absent
  THEN [success |-> FALSE, ownerKey |-> <<>>]
  ELSE LET ownerKey == Trim(body.ownerKey[1])
       IN IF Len(ownerKey) = 64 /\ IsHex64(ownerKey)
          THEN [success |-> TRUE, ownerKey |-> ownerKey]
          ELSE [success |-> FALSE, ownerKey |-> <<>>]

\* z.number().int().positive().optional(), for whole numbers
IsOptionalPositiveInt(x) == x = Absent \/ x[1] > 0

\* z.string().trim().min(20).max(200)
IsTrimmedString20To200(x) ==
  x # Absent /\ Len(Trim(x[1])) >= 20 /\ Len(Trim(x[1])) <= 200

\* CreatePaylinkSchema.safeParse(body)
CreatePaylinkSchema(body) ==
  /\ IsTrimmedString20To200(body.publicAddress)
  /\ IsTrimmedString20To200(body.privateViewKey)
  /\ IsOptionalPositiveInt(body.options.minIndex)
  /\ IsOptionalPositiveInt(body.options.maxIndex)
  /\ body.options.genMode \in {Absent, Some("random"), Some("sequential")}

Digits == {"0", "1", "2", "3", "4", "5", "6", "7", "8", "9"}

\* /^\d+(\.\d+)?$/
IsDecimal(s) ==
  \/ Len(s) > 0 /\ \A i \in 1..Len(s) : s[i] \in Digits
  \/ \E d \in 2..(Len(s) - 1) :
       /\ s[d] = "."
       /\ \A i \in (1..Len(s)) \ {d} : s[i] \in Digits

\* RequestDonationSchema.safeParse(body): the amount (absent when blank)
RequestDonationSchema(body) ==
  LET amount == IF body.amount # Absent /\ Trim(body.amount[1]) = <<>>
                THEN Absent
                ELSE IF body.amount = Absent THEN Absent
                     ELSE Some(Trim(body.amount[1]))
  IN IF amount = Absent \/ (Len(amount[1]) <= 40 /\ IsDecimal(amount[1]))
     THEN [success |-> TRUE, amount |-> amount]
     ELSE [success |-> FALSE, amount |-> Absent]

Max(a, b) == IF a > b THEN a ELSE b

clampIndex(n) == Max(1, Min(n, MAX_SUBADDRESS_INDEX))

normalizeRange(minRaw, maxRaw, fallbackMin, fallbackMax) ==
  LET min == IF minRaw # Absent THEN minRaw[1] ELSE fallbackMin
      max == IF maxRaw # Absent THEN maxRaw[1] ELSE fallbackMax
  IN [lo |-> Min(min, max), hi |-> Max(min, max)]

\* HMAC-SHA-256 of the id, cut to 16 hex digits: a value that names the id
computePaylinkFingerprint(paylinkId) == <<"fingerprint", paylinkId>>

genericDeleteMessageSingle(id) == <<"If it existed, paylink ", id, " was deleted.">>

genericDeleteMessageBulk ==
  <<"If any existed, all paylinks associated with the provided owner key were deleted.">>

\* SHA-256 of the address and the view key as 64 lowercase hex digits: a
\* value that tells apart addresses and view keys by their first characters
computeOwnerKey(publicAddress, privateViewKey) ==
  Rep(privateViewKey[1], 32) \o Rep(publicAddress[1], 32)

\* src/crypto.ts: AES-256-GCM under the master key; the random nonce is one value
encryptViewKey(viewKey) ==
  [ciphertextB64 |-> <<"aes-256-gcm", viewKey>>, nonceB64 |-> "nonce"]

decryptViewKey(ciphertextB64, nonceB64) == ciphertextB64[2]

\* package subaddress: the subaddress of an account at major and minor index
getSubaddress(viewKey, publicSpendKeyHex, major, minor) ==
  [viewKey |-> viewKey, publicSpendKey |-> publicSpendKeyHex,
   major |-> major, minor |-> minor]

\* first and last characters of an address
previewAddr(addr) == <<"preview", addr>>

\* src/moneroUri.ts
buildMoneroUri(address, amount, description) ==
  [scheme |-> "monero:", address |-> address,
   tx_amount |-> amount, tx_description |-> description]

----------------------------------------------------------------------------
(* migrations/001_init.ts: table paylinks *)

\* the texts column id (type uuid) takes, here the ids gen_random_uuid() gives
UuidVals ==
  { "11111111-1111-4111-8111-111111111111",
    "22222222-2222-4222-8222-222222222222" }

\* whether a text is input of type uuid; a statement comparing column id
\* with any other text fails
IsUuid(id) == id \in UuidVals

MAX_INDEX == 1000000

\* the check constraints of the table
RowConstraints(row) ==
  /\ row.gen_mode = "random"
  /\ row.min_index >= 1 /\ row.min_index <= MAX_INDEX
  /\ row.max_index >= 1 /\ row.max_index <= MAX_INDEX
  /\ row.min_index <= row.max_index

\* a statement as the database saw it: its kind, its parameters, whether it
\* failed, and the number of rows it returned or changed
Statement(sql, values, failed, rowCount) ==
  [sql |-> sql, values |-> values, failed |-> failed, rowCount |-> rowCount]

\* SELECT ... FROM paylinks WHERE id = $1 LIMIT 1
SelectById(d, id) ==
  IF ~IsUuid(id)
  THEN [failed |-> TRUE, rows |-> {},
        log |-> Statement("SELECT WHERE id = $1", <<id>>, TRUE, 0)]
  ELSE LET rows == {r \in d : r.id = id}
       IN [failed |-> FALSE, rows |-> rows,
           log |-> Statement("SELECT WHERE id = $1", <<id>>, FALSE, Cardinality(rows))]

DeleteByIdAndOwnerKey_IdOnly(d, id, ownerKey) ==
  IF ~IsUuid(id)
  THEN [failed |-> TRUE, db |-> d,
        log |-> Statement("DELETE WHERE id = $1 AND owner_key = $2",
                          <<id, ownerKey>>, TRUE, 0)]
  ELSE LET rows == {r \in d : r.id = id}
       IN [failed |-> FALSE, db |-> d \ rows,
           log |-> Statement("DELETE WHERE id = $1 AND owner_key = $2",
                             <<id, ownerKey>>, FALSE, Cardinality(rows))]

\* DELETE FROM paylinks WHERE id = $1 AND owner_key = $2
DeleteByIdAndOwnerKey(d, id, ownerKey) ==
  IF ~IsUuid(id)
  THEN [failed |-> TRUE, db |-> d,
        log |-> Statement("DELETE WHERE id = $1 AND owner_key = $2",
                          <<id, ownerKey>>, TRUE, 0)]
  ELSE LET rows == {r \in d : r.id = id /\ r.owner_key = ownerKey}
       IN [failed |-> FALSE, db |-> d \ rows,
           log |-> Statement("DELETE WHERE id = $1 AND owner_key = $2",
                             <<id, ownerKey>>, FALSE, Cardinality(rows))]

\* DELETE FROM paylinks WHERE owner_key = $1
DeleteByOwnerKey(d, ownerKey) ==
  LET rows == {r \in d : r.owner_key = ownerKey}
  IN [failed |-> FALSE, db |-> d \ rows,
      log |-> Statement("DELETE WHERE owner_key = $1", <<ownerKey>>, FALSE,
                        Cardinality(rows))]

\* INSERT INTO paylinks (...) VALUES (...) RETURNING id, with the defaults of
\* the other columns, for the id gen_random_uuid() gave
InsertPaylink(d, id, label, publicAddress, ciphertextB64, nonceB64, genMode, minIndex, maxIndex, ownerKey) ==
  LET row == [id |-> id, label |-> label, public_address |-> publicAddress,
              encrypted_view_key |-> ciphertextB64, encryption_nonce |-> nonceB64,
              gen_mode |-> genMode, min_index |-> minIndex, max_index |-> maxIndex,
              owner_key |-> ownerKey, active |-> TRUE, deleted_at |-> Absent]
  IN IF RowConstraints(row)
     THEN [failed |-> FALSE, db |-> d \cup {row},
           log |-> Statement("INSERT", <<minIndex, maxIndex>>, FALSE, 1)]
     ELSE [failed |-> TRUE, db |-> d,
           log |-> Statement("INSERT", <<minIndex, maxIndex>>, TRUE, 0)]

----------------------------------------------------------------------------
(* src/server.ts: the handlers; each gives the outcomes of a request on the
   table d: the table after it, the response, the statements sent *)

Outcome(d, status, body, log) ==
  [db |-> d, status |-> status, body |-> body, queried |-> log, index |-> Absent]

InternalError(d, log) == Outcome(d, 500, [error |-> "internal_error"], log)

InvalidRequest(d, details) ==
  Outcome(d, 400, [error |-> "invalid_request", details |-> details], <<>>)

\* GET /api/paylinks/:id/meta
GetMeta(d, id) ==
  LET r == SelectById(d, id)
  IN IF r.failed
     THEN {InternalError(d, <<r.log>>)}
     ELSE IF Cardinality(r.rows) # 1
          THEN {Outcome(d, 404, [error |-> "paylink_not_found"], <<r.log>>)}
          ELSE LET row == CHOOSE x \in r.rows : TRUE
               IN IF ~row.active
                  THEN {Outcome(d, 410, [error |-> "paylink_inactive"], <<r.log>>)}
                  ELSE IF row.deleted_at # Absent
                       THEN {Outcome(d, 410, [error |-> "paylink_deleted"], <<r.log>>)}
                       ELSE {Outcome(d, 200,
                                     [paylinkId |-> id,
                                      label |-> IF row.label = Absent THEN <<>>
                                                ELSE row.label[1],
                                      fingerprint |-> computePaylinkFingerprint(id)],
                                     <<r.log>>)}

PostDelete_NotFound(d, id, body) ==
  LET parsed == DeleteByOwnerKeySchema(body)
  IN IF ~parsed.success
     THEN {InvalidRequest(d, "ownerKey")}
     ELSE LET r == DeleteByIdAndOwnerKey(d, id, parsed.ownerKey)
          IN IF r.failed
             THEN {InternalError(d, <<r.log>>)}
             ELSE IF r.log.rowCount = 0
                  THEN {Outcome(r.db, 404, [error |-> "paylink_not_found"], <<r.log>>)}
                  ELSE {Outcome(r.db, 200,
                                [ok |-> TRUE, message |-> genericDeleteMessageSingle(id)],
                                <<r.log>>)}

\* POST /api/paylinks/:id/delete
PostDelete(d, id, body) ==
  LET parsed == DeleteByOwnerKeySchema(body)
  IN IF ~parsed.success
     THEN {InvalidRequest(d, "ownerKey")}
     ELSE LET r == DeleteByIdAndOwnerKey(d, id, parsed.ownerKey)
          IN IF r.failed
             THEN {InternalError(d, <<r.log>>)}
             ELSE {Outcome(r.db, 200,
                           [ok |-> TRUE, message |-> genericDeleteMessageSingle(id)],
                           <<r.log>>)}

\* POST /api/paylinks/delete
PostDeleteAll(d, body) ==
  LET parsed == DeleteByOwnerKeySchema(body)
  IN IF ~parsed.success
     THEN {InvalidRequest(d, "ownerKey")}
     ELSE LET r == DeleteByOwnerKey(d, parsed.ownerKey)
          IN IF r.failed
             THEN {InternalError(d, <<r.log>>)}
             ELSE {Outcome(r.db, 200,
                           [ok |-> TRUE, message |-> genericDeleteMessageBulk],
                           <<r.log>>)}

\* POST /api/paylinks, from the decoded address on; one outcome for each id
\* the database may give
StorePaylink(d, label, publicAddress, privateViewKey, minIndex, maxIndex, decoded) ==
  IF decoded.err # "none"
  THEN {InvalidRequest(d, "publicAddress")}
  ELSE
  LET addrAtMin == getSubaddress(privateViewKey, decoded.val.publicSpendKeyHex,
                                 0, minIndex)
      addressPreview == previewAddr(addrAtMin)
      enc == encryptViewKey(privateViewKey)
      ownerKey == computeOwnerKey(publicAddress, privateViewKey)
  IN
  { LET r == InsertPaylink(d, id, label, publicAddress, enc.ciphertextB64,
                           enc.nonceB64, "random", minIndex, maxIndex, ownerKey)
    IN IF r.failed
       THEN InternalError(d, <<r.log>>)
       ELSE Outcome(r.db, 201,
                    [id |-> id, label |-> label,
                     fingerprint |-> computePaylinkFingerprint(id),
                     genMode |-> "random", minIndex |-> minIndex,
                     maxIndex |-> maxIndex, addressPreview |-> addressPreview],
                    <<r.log>>)
    : id \in UuidVals \ {row.id : row \in d} }

PostPaylink_NoUpperCheck(d, body) ==
  IF ~CreatePaylinkSchema(body)
  THEN {InvalidRequest(d, "schema")}
  ELSE
  LET publicAddress == Trim(body.publicAddress[1])
      privateViewKey == Trim(body.privateViewKey[1])
      options == body.options
      rawLabel == IF options.label # Absent
                  THEN SubSeq(Trim(options.label[1]), 1,
                              Min(80, Len(Trim(options.label[1]))))
                  ELSE <<>>
      label == IF Len(rawLabel) > 0 THEN Some(rawLabel) ELSE Absent
      genModeRaw == IF options.genMode # Absent THEN options.genMode[1] ELSE "random"
      minIndexRaw == options.minIndex
      maxIndexRaw == options.maxIndex
  IN
  IF genModeRaw = "sequential"
  THEN {InvalidRequest(d, "genMode")}
  ELSE IF minIndexRaw # Absent
          /\ (minIndexRaw[1] < 1 \/ minIndexRaw[1] > MAX_SUBADDRESS_INDEX)
  THEN {InvalidRequest(d, "minIndex")}
  ELSE IF maxIndexRaw # Absent /\ maxIndexRaw[1] < 1
  THEN {InvalidRequest(d, "maxIndex")}
  ELSE
  LET range == normalizeRange(minIndexRaw, maxIndexRaw,
                              DEFAULT_MIN_INDEX, DEFAULT_MAX_INDEX)
      minIndex == clampIndex(range.lo)
      maxIndex == clampIndex(range.hi)
  IN
  StorePaylink(d, label, publicAddress, privateViewKey, minIndex, maxIndex,
               decodeStandardAddress(publicAddress))

\* POST /api/paylinks, up to the decoding of the address
PostPaylink(d, body) ==
  IF ~CreatePaylinkSchema(body)
  THEN {InvalidRequest(d, "schema")}
  ELSE
  LET publicAddress == Trim(body.publicAddress[1])
      privateViewKey == Trim(body.privateViewKey[1])
      options == body.options
      rawLabel == IF options.label # Absent
                  THEN SubSeq(Trim(options.label[1]), 1,
                              Min(80, Len(Trim(options.label[1]))))
                  ELSE <<>>
      label == IF Len(rawLabel) > 0 THEN Some(rawLabel) ELSE Absent
      genModeRaw == IF options.genMode # Absent THEN options.genMode[1] ELSE "random"
      minIndexRaw == options.minIndex
      maxIndexRaw == options.maxIndex
  IN
  IF genModeRaw = "sequential"
  THEN {InvalidRequest(d, "genMode")}
  ELSE IF minIndexRaw # Absent
          /\ (minIndexRaw[1] < 1 \/ minIndexRaw[1] > MAX_SUBADDRESS_INDEX)
  THEN {InvalidRequest(d, "minIndex")}
  ELSE IF maxIndexRaw # Absent
          /\ (maxIndexRaw[1] < 1 \/ maxIndexRaw[1] > MAX_SUBADDRESS_INDEX)
  THEN {InvalidRequest(d, "maxIndex")}
  ELSE
  LET range == normalizeRange(minIndexRaw, maxIndexRaw,
                              DEFAULT_MIN_INDEX, DEFAULT_MAX_INDEX)
      minIndex == clampIndex(range.lo)
      maxIndex == clampIndex(range.hi)
  IN
  StorePaylink(d, label, publicAddress, privateViewKey, minIndex, maxIndex,
               decodeStandardAddress(publicAddress))

\* crypto.randomInt(min, max): a number from min up to but excluding max;
\* of these the least and the greatest
randomInt(min, max) == {min, max - 1}

\* POST /api/paylinks/:id/request, from the drawing of the index on; one
\* outcome for each index drawn
AnswerRequest(d, id, paylink, amount, log, decoded) ==
  LET safeLo == clampIndex(paylink.min_index)
      safeHi == clampIndex(paylink.max_index)
      lo == Min(safeLo, safeHi)
      hi == Max(safeLo, safeHi)
      viewKey == decryptViewKey(paylink.encrypted_view_key, paylink.encryption_nonce)
  IN
  IF decoded.err # "none"
  THEN {InternalError(d, <<log>>)}
  ELSE
  { LET address == getSubaddress(viewKey, decoded.val.publicSpendKeyHex, 0, index)
        uri == buildMoneroUri(address, amount, Absent)
    IN [Outcome(d, 200,
                [paylinkId |-> id,
                 label |-> IF paylink.label = Absent THEN <<>> ELSE paylink.label[1],
                 address |-> address,
                 amount |-> IF amount = Absent THEN <<>> ELSE amount[1],
                 description |-> <<>>,
                 uri |-> uri,
                 fingerprint |-> computePaylinkFingerprint(id)],
                <<log>>)
          EXCEPT !.index = Some(index)]
    : index \in randomInt(lo, hi + 1) }

\* POST /api/paylinks/:id/request; one outcome for each index drawn
PostRequest(d, id, body) ==
  LET parsed == RequestDonationSchema(body)
  IN
  IF ~parsed.success
  THEN {InvalidRequest(d, "amount")}
  ELSE
  LET paylinkRes == SelectById(d, id)
  IN
  IF paylinkRes.failed
  THEN {InternalError(d, <<paylinkRes.log>>)}
  ELSE IF Cardinality(paylinkRes.rows) # 1
  THEN {Outcome(d, 404, [error |-> "paylink_not_found"], <<paylinkRes.log>>)}
  ELSE
  LET paylink == CHOOSE x \in paylinkRes.rows : TRUE
  IN
  IF ~paylink.active
  THEN {Outcome(d, 410, [error |-> "paylink_inactive"], <<paylinkRes.log>>)}
  ELSE IF paylink.deleted_at # Absent
  THEN {Outcome(d, 410, [error |-> "paylink_deleted"], <<paylinkRes.log>>)}
  ELSE
  AnswerRequest(d, id, paylink, parsed.amount, paylinkRes.log,
                decodeStandardAddress(paylink.public_address))

----------------------------------------------------------------------------
(* The requests clients send *)

\* a primary address: prefix 18, 69 bytes
AddressA == GroupMix \o Flatten(Rep(GroupZero, 7)) \o << "1", "7", "b", "W", "p", "W", "s" >>

\* a text of 20 characters that decodes to 14 bytes
AddressShort == Rep("1", 20)

ViewKeyA == Rep("a", 64)

ViewKeyB == Rep("b", 64)

OwnerKeyA == computeOwnerKey(AddressA, ViewKeyA)

OwnerKeyB == computeOwnerKey(AddressA, ViewKeyB)

\* the ids of a path: the uuids, and a text that is no uuid
PathIds == UuidVals \cup {"not-a-uuid"}

\* no index, the greatest index, and the indexes next to the ends of the
\* range 1..1000000
IndexVals == {Absent, Some(0), Some(1000000), Some(1000001)}

NoOptions == [label |-> Absent, genMode |-> Absent, minIndex |-> Absent, maxIndex |-> Absent]

CreateBody(address, viewKey, options) ==
  [publicAddress |-> Some(address), privateViewKey |-> Some(viewKey), options |-> options]

\* one owner with every pair of indexes; another owner, a label, the mode
\* the server refuses, and a text that is no address
CreateBodies ==
  {CreateBody(AddressA, ViewKeyA, [NoOptions EXCEPT !.minIndex = lo, !.maxIndex = hi]) :
     lo \in IndexVals, hi \in IndexVals}
    \cup { CreateBody(AddressA, ViewKeyB,
                      [NoOptions EXCEPT !.label = Some(<<" ", "t", "i", "p", " ">>)]),
           CreateBody(AddressA, ViewKeyA, [NoOptions EXCEPT !.genMode = Some("sequential")]),
           CreateBody(AddressShort, ViewKeyA, NoOptions) }

\* a paylink of one index and a paylink of the default range
DonationBodies ==
  { CreateBody(AddressA, ViewKeyA, [NoOptions EXCEPT !.minIndex = Some(2), !.maxIndex = Some(2)]),
    CreateBody(AddressA, ViewKeyB, NoOptions) }

\* no key, the keys of the two owners, a key in capitals, a key between
\* blanks, a key too short, a key that is not hex
OwnerKeyVals ==
  { Absent,
    Some(OwnerKeyA),
    Some(OwnerKeyB),
    Some(Rep("A", 32) \o Rep("4", 32)),
    Some(<<" ">> \o OwnerKeyA \o <<" ">>),
    Some(Rep("a", 63)),
    Some(Rep("g", 64)) }

DeleteBodies == {[ownerKey |-> k] : k \in OwnerKeyVals}

RequestBodies ==
  {[amount |-> a] : a \in {Absent, Some(<<"0", ".", "1">>), Some(<<"x">>)}}

----------------------------------------------------------------------------
(* The server *)

ServerInit ==
  /\ input = [kind |-> "none", v |-> <<>>]
  /\ call = "none"
  /\ result = Ok(<<>>)
  /\ ServerIdle

\* the request r ends with outcome out
Respond(r, out) ==
  /\ db' = out.db
  /\ req' = r
  /\ resp' = [status |-> out.status, body |-> out.body]
  /\ queried' = out.queried
  /\ UNCHANGED codecVars

Meta ==
  \E id \in PathIds :
    \E out \in GetMeta(db, id) :
      /\ Respond([op |-> "meta", id |-> id, body |-> <<>>], out)
      /\ UNCHANGED answers

\* a create request, while gen_random_uuid() has an id left to give
Create(bodies) ==
  /\ UuidVals \ {row.id : row \in db} # {}
  /\ \E body \in bodies :
       \E out \in PostPaylink(db, body) :
         /\ Respond([op |-> "create", id |-> "", body |-> body], out)
         /\ UNCHANGED answers

Delete ==
  \E id \in PathIds, body \in DeleteBodies :
    \E out \in PostDelete(db, id, body) :
      /\ Respond([op |-> "delete", id |-> id, body |-> body], out)
      /\ UNCHANGED answers

DeleteAll ==
  \E body \in DeleteBodies :
    \E out \in PostDeleteAll(db, body) :
      /\ Respond([op |-> "deleteAll", id |-> "", body |-> body], out)
      /\ UNCHANGED answers

Request ==
  \E id \in PathIds, body \in RequestBodies :
    \E out \in PostRequest(db, id, body) :
      /\ Respond([op |-> "request", id |-> id, body |-> body], out)
      /\ UNCHANGED answers

\* a donation request, with the index it was answered with kept
RequestLogged ==
  /\ Len(answers) < MaxRequests
  /\ \E id \in PathIds, body \in RequestBodies :
       \E out \in PostRequest(db, id, body) :
         /\ Respond([op |-> "request", id |-> id, body |-> body], out)
         /\ answers' = IF out.index # Absent
                       THEN Append(answers, [id |-> id, index |-> out.index[1]])
                       ELSE answers

ServerNext == Meta \/ Create(CreateBodies) \/ Delete \/ DeleteAll \/ Request

ServerSpec == ServerInit /\ [][ServerNext]_vars

DonationNext == Create(DonationBodies) \/ RequestLogged

DonationSpec == ServerInit /\ [][DonationNext]_vars

----------------------------------------------------------------------------
(* Properties of the donation requests *)

\* C11: across the donation requests answered for one paylink, no two are
\* answered with the same subaddress index.
C11_UniqueIndexes ==
  \A i \in 1..Len(answers), j \in 1..Len(answers) :
    (i # j /\ answers[i].id = answers[j].id) => answers[i].index # answers[j].index

----------------------------------------------------------------------------
(* Properties of the delete requests *)

\* the tables one or two accepted create requests leave
StoredTables ==
  LET one == UNION {{out.db : out \in PostPaylink({}, body)} : body \in CreateBodies}
  IN {{}} \cup one
       \cup UNION {{out.db : out \in PostPaylink(d, body)} : d \in one, body \in CreateBodies}

\* the responses the delete request r gets on the table d
DeleteResponses(d, r) ==
  {[status |-> out.status, body |-> out.body] :
     out \in IF r.op = "delete" THEN PostDelete(d, r.id, r.body)
                                ELSE PostDeleteAll(d, r.body)}

IsDelete(r) == r.op \in {"delete", "deleteAll"}

WellFormedOwnerKey(r) == DeleteByOwnerKeySchema(r.body).success

\* C12: the response to a delete request with a well-formed ownerKey is the
\* response the same request gets on every other table: whether a paylink of
\* that id is stored, and whether its owner key matches, does not show in the
\* status or the body.
C12_DeleteResponseHidesRows ==
  (IsDelete(req) /\ WellFormedOwnerKey(req))
    => \A d \in StoredTables \cup {db} : DeleteResponses(d, req) = {resp}

\* a delete that removed a row, answered as it is on a table where the id is
\* not stored and on a table where the id is stored under another owner key
C12_Witness ==
  /\ req.op = "delete"
  /\ WellFormedOwnerKey(req)
  /\ resp.status = 200
  /\ queried[1].rowCount = 1
  /\ \E d \in StoredTables :
       /\ \A row \in d : row.id # req.id
       /\ DeleteResponses(d, req) = {resp}
  /\ \E d \in StoredTables :
       /\ \E row \in d : row.id = req.id /\ row.owner_key # Trim(req.body.ownerKey[1])
       /\ DeleteResponses(d, req) = {resp}

----------------------------------------------------------------------------
(* Properties of the id of a path *)

TakesPathId(r) == r.op \in {"meta", "request", "delete"}

\* C13: a request with an id in its path sends the database no statement
\* with an id that is not a uuid.
C13_IdValidatedBeforeQuery ==
  TakesPathId(req)
    => \A k \in 1..Len(queried) : IsUuid(queried[k].values[1])

----------------------------------------------------------------------------
(* Properties of the rows a delete removes *)

\* the owner key of the delete request r as the schema hands it on
OwnerKeyOf(r) == DeleteByOwnerKeySchema(r.body).ownerKey

\* C16: a delete request adds and changes no row; with an ownerKey that
\* fails validation it removes none; a single delete removes only a row of
\* its id and its owner key; a bulk delete removes the rows of its owner key,
\* all of them and no other.
C16_DeleteFrame ==
  [][ IsDelete(req') =>
        /\ db' \subseteq db
        /\ ~WellFormedOwnerKey(req') => db' = db
        /\ (WellFormedOwnerKey(req') /\ req'.op = "delete") =>
             \A row \in db \ db' :
               row.id = req'.id /\ row.owner_key = OwnerKeyOf(req')
        /\ (WellFormedOwnerKey(req') /\ req'.op = "deleteAll") =>
             db \ db' = {row \in db : row.owner_key = OwnerKeyOf(req')}
    ]_vars

\* a single delete removed a row and left another row of the same owner
C16_Witness ==
  /\ req.op = "delete"
  /\ WellFormedOwnerKey(req)
  /\ queried[1].rowCount = 1
  /\ \E row \in db : row.owner_key = OwnerKeyOf(req) /\ row.id # req.id

----------------------------------------------------------------------------
(* Properties of the index range of a paylink *)

SuppliedOutside(x) == x # Absent /\ (x[1] < 1 \/ x[1] > 1000000)

\* C17: after a create request every stored paylink has
\* 1 <= min_index <= max_index <= 1000000, whichever of minIndex and
\* maxIndex the request carries; a request that carries an index outside
\* 1..1000000 is answered 400 and stores nothing.
C17_IndexRange ==
  [][ req'.op = "create" =>
        /\ \A row \in db' :
             /\ 1 <= row.min_index
             /\ row.min_index <= row.max_index
             /\ row.max_index <= 1000000
        /\ (\/ SuppliedOutside(req'.body.options.minIndex)
            \/ SuppliedOutside(req'.body.options.maxIndex))
             => (resp'.status = 400 /\ db' = db)
    ]_vars

\* only minIndex supplied, above the default maxIndex: stored in order
C17_Witness ==
  /\ req.op = "create"
  /\ req.body.options.minIndex = Some(1000000)
  /\ req.body.options.maxIndex = Absent
  /\ resp.status = 201
  /\ \E row \in db :
       /\ row.id = resp.body.id
       /\ row.min_index = 100
       /\ row.max_index = 1000000

====
